---- MODULE Spec2Model ----
(***************************************************************************)
(* Model of scripts/detect_cutout.py: detection of the fully enclosed      *)
(* transparent regions ("interior holes") of an RGBA image.                *)
(*                                                                         *)
(* The script is one straight-line program with loops.  The model has one  *)
(* action per loop iteration (so that the intermediate states of both      *)
(* flood fills are visible) and one action per remaining statement group.  *)
(* A grid cell is the pair <<x, y>>; the numpy arrays of the script,       *)
(* indexed [y, x], are functions over Cells(w, h).                         *)
(***************************************************************************)
EXTENDS Integers, Sequences, FiniteSets, TLC

(***************************************************************************)
(* Bounds of the model (sizes of the images the decoder may deliver).      *)
(***************************************************************************)
\* arbitrary images: at most MaxCells pixels, each side at most MaxSide
MaxCells == 9
MaxSide == 4
\* framed images: a one-pixel ring around an arbitrary core of at most MaxInner pixels
MaxInner == 4
\* strip images: a row of holes, each narrow (1 pixel) or wide (MaxRun pixels)
MaxRun == 2

(***************************************************************************)
(* Program constants.                                                      *)
(***************************************************************************)
threshold == 16
limit == 5

VARIABLES
    pc,           \* position of the script
    file,         \* what the image decoder will deliver for sys.argv[1]
    w, h,         \* img.size
    alpha,        \* data[:, :, 3]
    transparent,  \* alpha < threshold
    visited,      \* exterior mask (0 / 1)
    queue,        \* deque of the border flood-fill
    x, y,         \* loop variables of the seeding loops and of the scan
    interior,     \* transparent & (visited == 0)
    labeled,      \* label grid
    label,        \* label counter
    components,   \* list of (area, min_x, min_y, width, height)
    comp_queue,   \* deque of the component fill
    min_x, min_y, max_x, max_y, area,
    i,            \* index of the report loop
    output        \* lines printed on standard output

vars == <<pc, file, w, h, alpha, transparent, visited, queue, x, y, interior,
          labeled, label, components, comp_queue, min_x, min_y, max_x, max_y,
          area, i, output>>

Cells(ww, hh) == (0 .. ww - 1) \X (0 .. hh - 1)

RECURSIVE SumTo(_, _)
SumTo(f, n) == IF n = 0 THEN 0 ELSE f[n] + SumTo(f, n - 1)

(***************************************************************************)
(* The images handed to the program.  An image is what Image.open(path)    *)
(* .convert("RGBA") delivers: a decode failure, or a size and one alpha    *)
(* value in 0..255 per pixel.                                              *)
(***************************************************************************)
Image(ww, hh, a) == [ok |-> TRUE, w |-> ww, h |-> hh, alpha |-> a]

NoImage == [ok |-> FALSE, w |-> 0, h |-> 0, alpha |-> << >>]

\* every image of at most MaxCells pixels over the alpha values 15 and 16
GeneralImages ==
    UNION { UNION { { Image(ww, hh, a) : a \in [Cells(ww, hh) -> {15, 16}] }
                    : hh \in { n \in 0 .. MaxSide : ww * n <= MaxCells } }
            : ww \in 0 .. MaxSide }

\* a ring of alpha 255 (opaque), with at most one gap of alpha 0, around a core
\* over the alpha values 15 and 16
OnRing(c, ww, hh) == c[1] = 0 \/ c[1] = ww - 1 \/ c[2] = 0 \/ c[2] = hh - 1

NoGap == <<-1, -1>>

FramedImage(iw, ih, core, gap) ==
    Image(iw + 2, ih + 2,
          [c \in Cells(iw + 2, ih + 2) |->
              IF OnRing(c, iw + 2, ih + 2)
              THEN (IF c = gap THEN 0 ELSE 255)
              ELSE core[<<c[1] - 1, c[2] - 1>>]])

FramedImages ==
    UNION { UNION { { FramedImage(iw, ih, core, gap) :
                         core \in [Cells(iw, ih) -> {15, 16}],
                         gap \in {NoGap} \cup
                                 { c \in Cells(iw + 2, ih + 2) : OnRing(c, iw + 2, ih + 2) } }
                    : ih \in { n \in 1 .. MaxInner : iw * n <= MaxInner } }
            : iw \in 1 .. MaxInner }

\* three rows, opaque ring; the middle row holds k holes of widths runs[1..k]
\* (alpha 0) separated by single pixels of alpha 16
StripStart(runs, k) == 1 + SumTo(runs, k - 1) + (k - 1)

StripImage(runs) ==
    LET k == Len(runs)
        ww == 2 + SumTo(runs, k) + (k - 1)
    IN Image(ww, 3,
             [c \in Cells(ww, 3) |->
                 IF OnRing(c, ww, 3) THEN 255
                 ELSE IF \E j \in 1 .. k :
                            /\ StripStart(runs, j) <= c[1]
                            /\ c[1] < StripStart(runs, j) + runs[j]
                      THEN 0 ELSE 16])

\* up to one hole more than the report prints
StripImages ==
    UNION { { StripImage(runs) : runs \in [1 .. k -> {1, MaxRun}] }
            : k \in 1 .. limit + 1 }

Images == {NoImage} \cup GeneralImages \cup FramedImages \cup StripImages

(***************************************************************************)
(* numpy indexing: an index i of an axis of size n is valid iff            *)
(* -n <= i < n, a negative index counting from the end; anything else      *)
(* raises IndexError.                                                      *)
(***************************************************************************)
IndexOK(yy, xx) == -h <= yy /\ yy < h /\ -w <= xx /\ xx < w

At(yy, xx) == << IF xx < 0 THEN xx + w ELSE xx, IF yy < 0 THEN yy + h ELSE yy >>

(***************************************************************************)
(* Lines 6-17: decode, print the dimensions, threshold the alpha channel,  *)
(* allocate the visited mask and the queue.                                *)
(***************************************************************************)
\* a threshold test that is not strict
TransparentInclusive(a) == a <= threshold

Transparent(a) == a < threshold

\* a Dimensions line with width and height exchanged
DimensionsLineSwapped == <<"Dimensions", file.h, file.w>>

DimensionsLine == <<"Dimensions", file.w, file.h>>

Load ==
    /\ pc = "load"
    /\ file.ok
    /\ w' = file.w
    /\ h' = file.h
    /\ output' = Append(output, DimensionsLine)
    /\ alpha' = file.alpha
    /\ transparent' = [c \in Cells(file.w, file.h) |-> Transparent(file.alpha[c])]
    /\ visited' = [c \in Cells(file.w, file.h) |-> 0]
    /\ queue' = << >>
    /\ x' = 0
    /\ pc' = "seed_rows"
    /\ UNCHANGED <<file, y, interior, labeled, label, components, comp_queue,
                   min_x, min_y, max_x, max_y, area, i>>

\* Image.open raises: the traceback goes to standard error, nothing to standard output
LoadFail ==
    /\ pc = "load"
    /\ ~file.ok
    /\ pc' = "aborted"
    /\ UNCHANGED <<file, w, h, alpha, transparent, visited, queue, x, y, interior,
                   labeled, label, components, comp_queue, min_x, min_y, max_x,
                   max_y, area, i, output>>

(***************************************************************************)
(* Lines 19-32: seeding of the border flood-fill.                          *)
(***************************************************************************)
\* a seeding test that forgets "and visited[cy, cx] == 0"
SeedCellNoGuard(vis, q, cx, cy) ==
    IF transparent[At(cy, cx)]
    THEN [visited |-> [vis EXCEPT ![At(cy, cx)] = 1], queue |-> Append(q, <<cx, cy>>)]
    ELSE [visited |-> vis, queue |-> q]

\* one "if transparent[cy, cx] and visited[cy, cx] == 0: ..." of the seeding loops
SeedCell(vis, q, cx, cy) ==
    IF transparent[At(cy, cx)] /\ vis[At(cy, cx)] = 0
    THEN [visited |-> [vis EXCEPT ![At(cy, cx)] = 1], queue |-> Append(q, <<cx, cy>>)]
    ELSE [visited |-> vis, queue |-> q]

\* a seeding that forgets the bottom row
SeedRowsTopOnly == <<0, 0>>

\* the rows examined by one iteration of "for x in range(w)" (lines 20 and 23)
SeedRows == <<0, h - 1>>

\* side columns that examine the left column twice and never the right one
SeedColsLeftOnly == <<0, 0>>

\* the columns examined by one iteration of "for y in range(1, h - 1)" (lines 27 and 30)
SeedCols == <<0, w - 1>>

\* first value of y in "for y in range(1, h - 1)"
SeedColFirst == 1

SeedRow ==
    /\ pc = "seed_rows"
    /\ x < w
    /\ IF IndexOK(SeedRows[1], x) /\ IndexOK(SeedRows[2], x)
       THEN LET s1 == SeedCell(visited, queue, x, SeedRows[1])
                s2 == SeedCell(s1.visited, s1.queue, x, SeedRows[2])
            IN /\ visited' = s2.visited
               /\ queue' = s2.queue
               /\ x' = x + 1
               /\ pc' = pc
       ELSE \* IndexError
            /\ pc' = "aborted"
            /\ UNCHANGED <<visited, queue, x>>
    /\ UNCHANGED <<file, w, h, alpha, transparent, y, interior, labeled, label,
                   components, comp_queue, min_x, min_y, max_x, max_y, area, i,
                   output>>

SeedRowsDone ==
    /\ pc = "seed_rows"
    /\ x >= w
    /\ y' = SeedColFirst
    /\ pc' = "seed_cols"
    /\ UNCHANGED <<file, w, h, alpha, transparent, visited, queue, x, interior,
                   labeled, label, components, comp_queue, min_x, min_y, max_x,
                   max_y, area, i, output>>

SeedCol ==
    /\ pc = "seed_cols"
    /\ y < h - 1
    /\ IF IndexOK(y, SeedCols[1]) /\ IndexOK(y, SeedCols[2])
       THEN LET s1 == SeedCell(visited, queue, SeedCols[1], y)
                s2 == SeedCell(s1.visited, s1.queue, SeedCols[2], y)
            IN /\ visited' = s2.visited
               /\ queue' = s2.queue
               /\ y' = y + 1
               /\ pc' = pc
       ELSE \* IndexError
            /\ pc' = "aborted"
            /\ UNCHANGED <<visited, queue, y>>
    /\ UNCHANGED <<file, w, h, alpha, transparent, x, interior, labeled, label,
                   components, comp_queue, min_x, min_y, max_x, max_y, area, i,
                   output>>

SeedColsDone ==
    /\ pc = "seed_cols"
    /\ y >= h - 1
    /\ pc' = "expand"
    /\ UNCHANGED <<file, w, h, alpha, transparent, visited, queue, x, y, interior,
                   labeled, label, components, comp_queue, min_x, min_y, max_x,
                   max_y, area, i, output>>

(***************************************************************************)
(* Lines 34-40: expansion of the border flood-fill.                        *)
(***************************************************************************)
\* a neighbour list that forgets (0, 1)
DirsNoDown == << <<-1, 0>>, <<1, 0>>, <<0, -1>> >>

\* neighbour offsets that forget the left neighbour (-1, 0)
DirsNoLeft == << <<1, 0>>, <<0, -1>>, <<0, 1>> >>

\* the neighbour offsets (dx, dy), in the order of lines 36 and 63
Dirs == << <<-1, 0>>, <<1, 0>>, <<0, -1>>, <<0, 1>> >>

\* a neighbour test that forgets "and transparent[ny, nx]"
CanVisitOpaque(nx, ny, vis) ==
    /\ 0 <= nx /\ nx < w
    /\ 0 <= ny /\ ny < h
    /\ vis[<<nx, ny>>] = 0

\* the condition of line 38
CanVisit(nx, ny, vis) ==
    /\ 0 <= nx /\ nx < w
    /\ 0 <= ny /\ ny < h
    /\ vis[<<nx, ny>>] = 0
    /\ transparent[<<nx, ny>>]

\* an expansion loop that gives up as soon as a popped cell adds no neighbour:
\* the cells still pending are dropped
RECURSIVE ExpandNbrsAll(_, _, _, _, _)
ExpandNbrsAll(cx, cy, k, vis, q) ==
    IF k > Len(Dirs) THEN [visited |-> vis, queue |-> q]
    ELSE LET nx == cx + Dirs[k][1]
             ny == cy + Dirs[k][2]
         IN IF CanVisit(nx, ny, vis)
            THEN ExpandNbrsAll(cx, cy, k + 1, [vis EXCEPT ![<<nx, ny>>] = 1],
                               Append(q, <<nx, ny>>))
            ELSE ExpandNbrsAll(cx, cy, k + 1, vis, q)

ExpandNbrsStopWhenStale(cx, cy, k, vis, q) ==
    LET r == ExpandNbrsAll(cx, cy, k, vis, q)
    IN IF Len(r.queue) = Len(q) THEN [visited |-> vis, queue |-> << >>] ELSE r

RECURSIVE ExpandNbrs(_, _, _, _, _)
ExpandNbrs(cx, cy, k, vis, q) ==
    IF k > Len(Dirs) THEN [visited |-> vis, queue |-> q]
    ELSE LET nx == cx + Dirs[k][1]
             ny == cy + Dirs[k][2]
         IN IF CanVisit(nx, ny, vis)
            THEN ExpandNbrs(cx, cy, k + 1, [vis EXCEPT ![<<nx, ny>>] = 1],
                            Append(q, <<nx, ny>>))
            ELSE ExpandNbrs(cx, cy, k + 1, vis, q)

\* a queue[0] in place of queue.popleft(): the head is never removed
QueuePeek(q) == q

\* what queue.popleft() leaves in the deque
QueueRest(q) == Tail(q)

Expand ==
    /\ pc = "expand"
    /\ queue # << >>
    /\ LET c == Head(queue)
           s == ExpandNbrs(c[1], c[2], 1, visited, QueueRest(queue))
       IN /\ visited' = s.visited
          /\ queue' = s.queue
    /\ UNCHANGED <<pc, file, w, h, alpha, transparent, x, y, interior, labeled,
                   label, components, comp_queue, min_x, min_y, max_x, max_y,
                   area, i, output>>

(***************************************************************************)
(* Lines 42-46: interior mask, label grid, label counter, component list.  *)
(***************************************************************************)
\* an interior mask that forgets the visited mask
InteriorAllTransparent(c) == transparent[c]

Interior(c) == transparent[c] /\ visited[c] = 0

ExpandDone ==
    /\ pc = "expand"
    /\ queue = << >>
    /\ interior' = [c \in Cells(w, h) |-> Interior(c)]
    /\ labeled' = [c \in Cells(w, h) |-> 0]
    /\ label' = 0
    /\ components' = << >>
    /\ x' = 0
    /\ y' = 0
    /\ pc' = "scan"
    /\ UNCHANGED <<file, w, h, alpha, transparent, visited, queue, comp_queue,
                   min_x, min_y, max_x, max_y, area, i, output>>

(***************************************************************************)
(* Lines 48-68: row-major scan and component fills.                        *)
(***************************************************************************)
\* a scan with the two loops exchanged (column after column)
ScanNextColumnMajor(xx, yy) == IF yy + 1 < h THEN <<xx, yy + 1>> ELSE <<xx + 1, 0>>

\* the next (x, y) of "for y in range(h): for x in range(w)"
ScanNext(xx, yy) == IF xx + 1 < w THEN <<xx + 1, yy>> ELSE <<0, yy + 1>>

InScan == y < h /\ x < w

\* a scan that forgets the "labeled[y, x] == 0" test
StartsComponentAlways(c) == interior[c]

\* the condition of line 50
StartsComponent(c) == interior[c] /\ labeled[c] = 0

ScanCell ==
    /\ pc = "scan"
    /\ InScan
    /\ IF StartsComponent(<<x, y>>)
       THEN /\ label' = label + 1
            /\ comp_queue' = << <<x, y>> >>
            /\ labeled' = [labeled EXCEPT ![<<x, y>>] = label + 1]
            /\ min_x' = x /\ min_y' = y /\ max_x' = x /\ max_y' = y
            /\ area' = 0
            /\ pc' = "fill"
            /\ UNCHANGED <<x, y>>
       ELSE /\ x' = ScanNext(x, y)[1]
            /\ y' = ScanNext(x, y)[2]
            /\ UNCHANGED <<pc, label, comp_queue, labeled, min_x, min_y, max_x,
                           max_y, area>>
    /\ UNCHANGED <<file, w, h, alpha, transparent, visited, queue, interior,
                   components, i, output>>

\* the condition of line 65
CanLabel(nx, ny, lab) ==
    /\ 0 <= nx /\ nx < w
    /\ 0 <= ny /\ ny < h
    /\ interior[<<nx, ny>>]
    /\ lab[<<nx, ny>>] = 0

RECURSIVE FillNbrs(_, _, _, _, _)
FillNbrs(cx, cy, k, lab, q) ==
    IF k > Len(Dirs) THEN [labeled |-> lab, comp_queue |-> q]
    ELSE LET nx == cx + Dirs[k][1]
             ny == cy + Dirs[k][2]
         IN IF CanLabel(nx, ny, lab)
            THEN FillNbrs(cx, cy, k + 1, [lab EXCEPT ![<<nx, ny>>] = label],
                          Append(q, <<nx, ny>>))
            ELSE FillNbrs(cx, cy, k + 1, lab, q)

Min(a, b) == IF a < b THEN a ELSE b

\* a max that never takes the new coordinate
MaxStuck(a, b) == a

Max(a, b) == IF a > b THEN a ELSE b

FillPop ==
    /\ pc = "fill"
    /\ comp_queue # << >>
    /\ LET c == Head(comp_queue)
           s == FillNbrs(c[1], c[2], 1, labeled, Tail(comp_queue))
       IN /\ area' = area + 1
          /\ min_x' = Min(min_x, c[1])
          /\ min_y' = Min(min_y, c[2])
          /\ max_x' = Max(max_x, c[1])
          /\ max_y' = Max(max_y, c[2])
          /\ labeled' = s.labeled
          /\ comp_queue' = s.comp_queue
    /\ UNCHANGED <<pc, file, w, h, alpha, transparent, visited, queue, x, y,
                   interior, label, components, i, output>>

\* a bounding box that forgets the "+ 1"
ComponentOffByOne(a, mnx, mny, mxx, mxy) == <<a, mnx, mny, mxx - mnx, mxy - mny>>

\* the tuple appended at line 68
Component(a, mnx, mny, mxx, mxy) == <<a, mnx, mny, mxx - mnx + 1, mxy - mny + 1>>

\* a components.insert(0, ...) in place of components.append(...)
FillDonePrepend ==
    /\ pc = "fill"
    /\ comp_queue = << >>
    /\ components' = <<Component(area, min_x, min_y, max_x, max_y)>> \o components
    /\ x' = ScanNext(x, y)[1]
    /\ y' = ScanNext(x, y)[2]
    /\ pc' = "scan"
    /\ UNCHANGED <<file, w, h, alpha, transparent, visited, queue, interior,
                   labeled, label, comp_queue, min_x, min_y, max_x, max_y, area,
                   i, output>>

FillDone ==
    /\ pc = "fill"
    /\ comp_queue = << >>
    /\ components' = Append(components, Component(area, min_x, min_y, max_x, max_y))
    /\ x' = ScanNext(x, y)[1]
    /\ y' = ScanNext(x, y)[2]
    /\ pc' = "scan"
    /\ UNCHANGED <<file, w, h, alpha, transparent, visited, queue, interior,
                   labeled, label, comp_queue, min_x, min_y, max_x, max_y, area,
                   i, output>>

ScanDone ==
    /\ pc = "scan"
    /\ ~InScan
    /\ pc' = "sort"
    /\ UNCHANGED <<file, w, h, alpha, transparent, visited, queue, x, y, interior,
                   labeled, label, components, comp_queue, min_x, min_y, max_x,
                   max_y, area, i, output>>

(***************************************************************************)
(* Lines 70-73: the report.                                                *)
(***************************************************************************)
\* key=lambda c: c[0]
Key(c) == c[1]

\* a sort that forgets reverse=True
BeforeAscending(a, b) == Key(a) < Key(b)

\* reverse=True: does a come before b when their keys differ
Before(a, b) == Key(a) > Key(b)

\* list.sort is stable (also with reverse=True): an element goes after the
\* elements that do not come after it
RECURSIVE InsertSorted(_, _)
InsertSorted(s, e) ==
    IF s = << >> THEN <<e>>
    ELSE IF Before(e, Head(s)) THEN <<e>> \o s
         ELSE <<Head(s)>> \o InsertSorted(Tail(s), e)

RECURSIVE SortedFrom(_, _)
SortedFrom(s, k) ==
    IF k = 0 THEN << >> ELSE InsertSorted(SortedFrom(s, k - 1), s[k])

Sorted(s) == SortedFrom(s, Len(s))

Sort ==
    /\ pc = "sort"
    /\ components' = Sorted(components)
    /\ pc' = "found"
    /\ UNCHANGED <<file, w, h, alpha, transparent, visited, queue, x, y, interior,
                   labeled, label, comp_queue, min_x, min_y, max_x, max_y, area,
                   i, output>>

FoundLine == <<"Found", Len(components)>>

PrintFound ==
    /\ pc = "found"
    /\ output' = Append(output, FoundLine)
    /\ i' = 0
    /\ pc' = "holes"
    /\ UNCHANGED <<file, w, h, alpha, transparent, visited, queue, x, y, interior,
                   labeled, label, components, comp_queue, min_x, min_y, max_x,
                   max_y, area>>

\* a report that forgets the slice
TopAll(s) == s

\* components[:5]
Top(s) == SubSeq(s, 1, Min(limit, Len(s)))

HoleLine(k, c) == <<"Hole", k + 1, c[1], c[2], c[3], c[4], c[5]>>

PrintHole ==
    /\ pc = "holes"
    /\ i < Len(Top(components))
    /\ output' = Append(output, HoleLine(i, Top(components)[i + 1]))
    /\ i' = i + 1
    /\ UNCHANGED <<pc, file, w, h, alpha, transparent, visited, queue, x, y,
                   interior, labeled, label, components, comp_queue, min_x, min_y,
                   max_x, max_y, area>>

ReportDone ==
    /\ pc = "holes"
    /\ i >= Len(Top(components))
    /\ pc' = "done"
    /\ UNCHANGED <<file, w, h, alpha, transparent, visited, queue, x, y, interior,
                   labeled, label, components, comp_queue, min_x, min_y, max_x,
                   max_y, area, i, output>>

(***************************************************************************)
(* The program.                                                            *)
(***************************************************************************)
Init ==
    /\ pc = "load"
    /\ file \in Images
    /\ w = 0 /\ h = 0
    /\ alpha = << >> /\ transparent = << >> /\ visited = << >>
    /\ queue = << >>
    /\ x = 0 /\ y = 0
    /\ interior = << >> /\ labeled = << >>
    /\ label = 0
    /\ components = << >>
    /\ comp_queue = << >>
    /\ min_x = 0 /\ min_y = 0 /\ max_x = 0 /\ max_y = 0 /\ area = 0
    /\ i = 0
    /\ output = << >>

Next ==
    \/ Load
    \/ LoadFail
    \/ SeedRow
    \/ SeedRowsDone
    \/ SeedCol
    \/ SeedColsDone
    \/ Expand
    \/ ExpandDone
    \/ ScanCell
    \/ FillPop
    \/ FillDone
    \/ ScanDone
    \/ Sort
    \/ PrintFound
    \/ PrintHole
    \/ ReportDone

Spec == Init /\ [][Next]_vars

\* the interpreter runs the script without pause: a step that can be taken is taken
FairSpec == Spec /\ WF_vars(Next)

(***************************************************************************)
(* Vocabulary of the properties.  Connectivity is defined here from the    *)
(* coordinates alone, independently of the program's neighbour loop.       *)
(***************************************************************************)
Adjacent4(a, b) ==
    \/ a[1] = b[1] /\ (a[2] - b[2] = 1 \/ b[2] - a[2] = 1)
    \/ a[2] = b[2] /\ (a[1] - b[1] = 1 \/ b[1] - a[1] = 1)

\* the cells of Allowed joined to a cell of S by a path of 4-adjacent cells of Allowed
RECURSIVE Region(_, _)
Region(S, Allowed) ==
    LET N == { c \in Allowed \ S : \E s \in S : Adjacent4(c, s) }
    IN IF N = {} THEN S ELSE Region(S \cup N, Allowed)

Grid == Cells(w, h)

BorderCells == { c \in Grid : c[1] = 0 \/ c[1] = w - 1 \/ c[2] = 0 \/ c[2] = h - 1 }

TransparentCells == { c \in Grid : transparent[c] }

InteriorCells == { c \in Grid : transparent[c] /\ visited[c] = 0 }

\* the border flood-fill is over: its queue is empty after seeding and expansion
FloodFillFinished ==
    \/ pc = "expand" /\ queue = << >>
    \/ pc \in {"scan", "fill", "sort", "found", "holes", "done"}

\* the label grid exists
Labeling == pc \in {"scan", "fill", "sort", "found", "holes", "done"}

\* the interior labeler is over
LabelingFinished == pc \in {"sort", "found", "holes", "done"}

\* C1: when the border flood-fill has finished, a cell is visited iff it is
\* transparent and joined by a path of 4-adjacent transparent cells to a
\* transparent cell of the border.
C1_VisitedIffBorderConnected ==
    FloodFillFinished =>
        { c \in Grid : visited[c] = 1 } =
            Region(TransparentCells \cap BorderCells, TransparentCells)

\* an image with a visited cell off the border and an enclosed transparent cell
C1_Witness ==
    /\ FloodFillFinished
    /\ \E c \in Grid \ BorderCells : visited[c] = 1
    /\ \E c \in Grid : transparent[c] /\ visited[c] = 0

\* C2: after labeling, two interior cells carry the same label iff a path of
\* 4-adjacent interior cells joins them, and there are as many Component
\* records as maximal 4-connected regions of interior cells.
C2_OneComponentPerRegion ==
    LabelingFinished =>
        /\ \A a \in InteriorCells : \A b \in InteriorCells :
              labeled[a] = labeled[b] <=> b \in Region({a}, InteriorCells)
        /\ Len(components) =
              Cardinality({ Region({a}, InteriorCells) : a \in InteriorCells })

\* two interior cells that touch diagonally only, labelled differently
C2_Witness ==
    /\ LabelingFinished
    /\ \E a \in InteriorCells : \E b \in InteriorCells :
          /\ b[1] = a[1] + 1 /\ b[2] = a[2] + 1
          /\ labeled[a] # labeled[b]
          /\ labeled[a] > 0 /\ labeled[b] > 0

RECURSIVE SumAreas(_)
SumAreas(s) == IF s = << >> THEN 0 ELSE Head(s)[1] + SumAreas(Tail(s))

\* the number of classes (opaque, exterior, interior component k) a cell is in
ClassCount(c) ==
    (IF ~transparent[c] THEN 1 ELSE 0)
    + (IF transparent[c] /\ visited[c] = 1 THEN 1 ELSE 0)
    + Cardinality({ k \in 1 .. Len(components) : labeled[c] = k })

\* C3: after the analysis every cell is in exactly one class; a cell has a
\* nonzero label iff it is transparent and not visited; the areas sum to the
\* number of such cells; without such cells there is no component and no label.
C3_Partition ==
    LabelingFinished =>
        /\ \A c \in Grid : ClassCount(c) = 1
        /\ \A c \in Grid : labeled[c] # 0 <=> (transparent[c] /\ visited[c] = 0)
        /\ SumAreas(components) = Cardinality(InteriorCells)
        /\ InteriorCells = {} =>
              components = << >> /\ \A c \in Grid : labeled[c] = 0

\* an image with opaque cells, exterior cells and two interior components
C3_Witness ==
    /\ LabelingFinished
    /\ Len(components) >= 2
    /\ \E c \in Grid : ~transparent[c]
    /\ \E c \in Grid : transparent[c] /\ visited[c] = 1

LabelCells(k) == { c \in Grid : labeled[c] = k }

MinOf(S) == CHOOSE m \in S : \A n \in S : m <= n

MaxOf(S) == CHOOSE m \in S : \A n \in S : m >= n

\* C4: from its append until the sort, the k-th record is (area, min_x,
\* min_y, width, height) of the cells labelled k: their number and their
\* tight bounding box.
C4_AreaAndTightBox ==
    pc \in {"scan", "fill", "sort"} =>
        \A k \in 1 .. Len(components) :
            LET S == LabelCells(k)
                xs == { c[1] : c \in S }
                ys == { c[2] : c \in S }
                r == components[k]
            IN /\ S # {}
               /\ r[1] = Cardinality(S)
               /\ r[2] = MinOf(xs)
               /\ r[3] = MinOf(ys)
               /\ r[4] = MaxOf(xs) - MinOf(xs) + 1
               /\ r[5] = MaxOf(ys) - MinOf(ys) + 1

\* an L-shaped component whose first scanned cell is not in its leftmost column
C4_Witness ==
    /\ pc = "sort"
    /\ \E k \in 1 .. Len(components) :
          /\ components[k][1] = 3
          /\ components[k][4] = 2
          /\ components[k][5] = 2
          /\ \E c \in LabelCells(k) :
                /\ c[1] > components[k][2]
                /\ \A d \in LabelCells(k) : c[2] <= d[2]
          /\ \A c \in LabelCells(k) : c[2] = components[k][3] => c[1] > components[k][2]

\* C5: every transparent cell of the border is visited once the flood-fill
\* has finished and never gets a label, also when w = 1 or h = 1; a fully
\* transparent image has no interior hole.
C5_BorderIsExterior ==
    /\ FloodFillFinished => \A c \in TransparentCells \cap BorderCells : visited[c] = 1
    /\ Labeling => \A c \in TransparentCells \cap BorderCells : labeled[c] = 0
    /\ (LabelingFinished /\ TransparentCells = Grid) => components = << >>

\* a one-pixel-wide image, every cell of which is examined twice by the seeding
C5_Witness ==
    /\ pc = "done"
    /\ (w = 1 \/ h = 1)
    /\ Cardinality(Grid) >= 2
    /\ TransparentCells = Grid

\* C6: an image with w = 0 or h = 0 is analysed without error: nothing is
\* seeded, the run does not abort, and it ends with an empty visited mask and
\* no component.
C6_DegenerateIsNotAnError ==
    (file.ok /\ (file.w = 0 \/ file.h = 0)) =>
        /\ pc # "aborted"
        /\ queue = << >>
        /\ pc = "done" => (visited = << >> /\ components = << >>)

\* C7 as stated: no line at all (Dimensions, Found, Hole) is printed before
\* both passes have completed, and an aborted run has printed nothing.
C7_NoOutputBeforeAnalysis ==
    /\ output # << >> => LabelingFinished
    /\ pc = "aborted" => output = << >>

\* C7 as amended: the Dimensions line is printed right after decoding, before
\* the passes, and is the only line until both passes have completed; a Found
\* or Hole line is printed only after both; a run that aborts at decoding has
\* printed nothing, one that aborts during a pass only the Dimensions line.
C7_OnlyDimensionsBeforeReport ==
    /\ pc = "load" => output = << >>
    /\ pc \in {"seed_rows", "seed_cols", "expand", "scan", "fill", "sort", "found"} =>
          output = << <<"Dimensions", file.w, file.h>> >>
    /\ \A k \in 1 .. Len(output) :
          output[k][1] \in {"Found", "Hole"} =>
              /\ pc \in {"holes", "done"}
              /\ queue = << >> /\ comp_queue = << >>
              /\ Len(components) = label
    /\ pc = "aborted" =>
          output = IF file.ok THEN << <<"Dimensions", file.w, file.h>> >> ELSE << >>

\* a component fill under way with the Dimensions line already printed
C7_Witness ==
    /\ pc = "fill"
    /\ comp_queue # << >>
    /\ Len(output) = 1
    /\ file.w # file.h

Count(s, e) == Cardinality({ k \in 1 .. Len(s) : s[k] = e })

IsPermutation(s, t) ==
    /\ Len(s) = Len(t)
    /\ \A k \in 1 .. Len(s) : Count(s, s[k]) = Count(t, s[k])

NonIncreasingAreas(s) == \A k \in 1 .. Len(s) - 1 : s[k][1] >= s[k + 1][1]

\* the areas of the Hole lines printed so far, in print order
HoleAreas ==
    LET holes == SelectSeq(output, LAMBDA l : l[1] = "Hole")
    IN [k \in 1 .. Len(holes) |-> <<holes[k][3]>>]

\* C8: the sort leaves a permutation of the labeler's list that is
\* non-increasing in area, and the Hole lines are printed in non-increasing
\* area order.
C8_SortCorrect ==
    /\ [][pc = "sort" =>
             /\ IsPermutation(components, components')
             /\ NonIncreasingAreas(components')]_vars
    /\ [](NonIncreasingAreas(HoleAreas))

\* a finished report of an image whose first component (label 1) is smaller
\* than its second: the sort had to reorder
C8_Witness ==
    /\ pc = "done"
    /\ Len(components) >= 3
    /\ Cardinality(LabelCells(1)) < Cardinality(LabelCells(2))
    /\ Len(HoleAreas) >= 3
    /\ HoleAreas[1][1] > HoleAreas[3][1]

\* the records of the Hole lines printed, in print order
Printed ==
    LET holes == SelectSeq(output, LAMBDA l : l[1] = "Hole")
    IN [k \in 1 .. Len(holes) |-> SubSeq(holes[k], 3, 7)]

\* C9: for N components the report is the Found line with N, then exactly
\* min(5, N) Hole lines ranked 1, 2, ...; the records printed are records of
\* the list, and no record left out has a larger area than a printed one.
C9_ReportsTopFive ==
    pc = "done" =>
        LET N == Len(components)
            M == IF N < 5 THEN N ELSE 5
        IN /\ N = label
           /\ Len(output) = 2 + M
           /\ output[2] = <<"Found", N>>
           /\ \A j \in 1 .. M : output[2 + j][1] = "Hole" /\ output[2 + j][2] = j
           /\ Len(Printed) = M
           /\ \A j \in 1 .. M : Count(Printed, Printed[j]) <= Count(components, Printed[j])
           /\ \A k \in 1 .. N :
                 Count(components, components[k]) > Count(Printed, components[k]) =>
                     \A j \in 1 .. M : components[k][1] <= Printed[j][1]

\* six components, the one left out strictly smaller than the five printed
C9_Witness ==
    /\ pc = "done"
    /\ Len(components) = 6
    /\ Len(Printed) = 5
    /\ \E k \in 1 .. 6 : components[k][1] < Printed[5][1]

WellFormed == file.ok /\ file.w >= 1 /\ file.h >= 1

\* C10: a run on an image with w >= 1 and h >= 1 eventually reaches the end
\* of the report, with the border queue and the component queue emptied and
\* the row-major scan past the last cell (x, y) = (w - 1, h - 1).
C10_Totality ==
    (pc = "load" /\ WellFormed) ~>
        (/\ pc = "done"
         /\ queue = << >>
         /\ comp_queue = << >>
         /\ x = 0 /\ y = h)

\* a finished run that expanded the border fill off the border and filled a
\* component of more than one cell
C10_Witness ==
    /\ pc = "done"
    /\ WellFormed
    /\ \E k \in 1 .. Len(components) : components[k][1] >= 2
    /\ \E c \in Grid \ BorderCells : visited[c] = 1

\* C13: every Component record ever appended has area >= 1, width >= 1,
\* height >= 1 and area <= width * height.
C13_AreaFitsBox ==
    \A k \in 1 .. Len(components) :
        /\ components[k][1] >= 1
        /\ components[k][4] >= 1
        /\ components[k][5] >= 1
        /\ components[k][1] <= components[k][4] * components[k][5]

\* an L-shaped component: area 3 in a box of 2 by 2
C13_Witness ==
    \E k \in 1 .. Len(components) :
        /\ components[k][4] = 2
        /\ components[k][5] = 2
        /\ components[k][1] = 3

\* C14: a cell is transparent iff its alpha is below 16 (15 is transparent, 16
\* is not); a cell of alpha >= 16 is never visited and never labelled, whether
\* its alpha is 16 or 255.
C14_StrictThreshold ==
    /\ pc = "load" =>
          /\ \A a \in 0 .. 255 : Transparent(a) <=> a < 16
          /\ Transparent(15) /\ ~Transparent(16)
    /\ \A c \in DOMAIN transparent : transparent[c] <=> alpha[c] < 16
    /\ \A c \in DOMAIN visited : alpha[c] >= 16 => visited[c] = 0
    /\ \A c \in DOMAIN labeled : alpha[c] >= 16 => labeled[c] = 0

\* a cell of alpha 16 between a visited cell of alpha 15 and a labelled cell of
\* alpha 15, in an image that also holds alpha 0 and alpha 255
C14_Witness ==
    /\ LabelingFinished
    /\ \E c \in Grid :
          /\ alpha[c] = 16
          /\ \E d \in Grid : Adjacent4(c, d) /\ alpha[d] = 15 /\ visited[d] = 1
          /\ \E e \in Grid : Adjacent4(c, e) /\ alpha[e] = 15 /\ labeled[e] > 0
    /\ \E c \in Grid : alpha[c] = 255
    /\ \E c \in Grid : alpha[c] = 0 /\ visited[c] = 1

RangeOf(s) == { s[k] : k \in 1 .. Len(s) }

\* C15: a visited entry never goes from set to unset, every visited cell is
\* transparent, and every cell in the queue is already visited.
C15_VisitedMonotonic ==
    /\ [][\A c \in DOMAIN visited : visited[c] = 1 => visited'[c] = 1]_vars
    /\ [](\A c \in DOMAIN visited : visited[c] = 1 => transparent[c])
    /\ [](\A c \in RangeOf(queue) : visited[c] = 1)

\* the expansion under way: cells queued, one of them off the border
C15_Witness ==
    /\ pc = "expand"
    /\ Len(queue) >= 2
    /\ \E c \in RangeOf(queue) : c \notin BorderCells
    /\ \E c \in Grid : ~transparent[c]

\* the position of a cell in row-major order
RowMajor(c) == c[2] * w + c[1]

FirstCell(k) == MinOf({ RowMajor(c) : c \in LabelCells(k) })

\* C16: after labeling the labels in use are exactly 1..N for N components; a
\* nonzero label never changes; until the sort the k-th record describes the
\* cells labelled k; and labels follow the row-major order of the components'
\* first cells.
C16_LabelsInScanOrder ==
    /\ [](LabelingFinished =>
            /\ { labeled[c] : c \in Grid } \ {0} = 1 .. Len(components)
            /\ label = Len(components)
            /\ \A a \in 1 .. label : \A b \in 1 .. label :
                  a < b <=> FirstCell(a) < FirstCell(b))
    /\ [][\A c \in DOMAIN labeled : labeled[c] # 0 => labeled'[c] = labeled[c]]_vars
    /\ [](pc \in {"scan", "fill", "sort"} =>
            \A k \in 1 .. Len(components) :
                /\ LabelCells(k) # {}
                /\ components[k][1] = Cardinality(LabelCells(k))
                /\ \E c \in LabelCells(k) : c[1] = components[k][2]
                /\ \E c \in LabelCells(k) : c[2] = components[k][3])

\* two components, the first in row-major order lying right of the second
C16_Witness ==
    /\ LabelingFinished
    /\ \E c \in Grid : \E d \in Grid :
          /\ labeled[c] = 1 /\ labeled[d] = 2
          /\ d[1] < c[1] /\ d[2] > c[2]

BorderPass == pc \in {"seed_rows", "seed_cols", "expand"}

LabelPass == pc \in {"scan", "fill"}

\* C17: the interior mask is written only once the border queue is empty;
\* during the border flood-fill no label and no component exists; from the
\* start of the labeling on, the transparency, visited and interior masks are
\* not written; a record of the component list is not changed after its
\* append, and the list is changed after the labeling by the sort alone.
C17_PhasesDoNotOverlap ==
    /\ [][interior' # interior => (pc = "expand" /\ queue = << >>)]_vars
    /\ [](BorderPass =>
            /\ components = << >>
            /\ \A c \in DOMAIN labeled : labeled[c] = 0)
    /\ [][Labeling => UNCHANGED <<transparent, visited, interior, queue>>]_vars
    /\ [][LabelPass =>
            /\ Len(components') >= Len(components)
            /\ \A k \in 1 .. Len(components) : components'[k] = components[k]]_vars
    /\ [][(pc \in {"found", "holes", "done"}) => components' = components]_vars

\* a second component being filled, with exterior cells in the same image
C17_Witness ==
    /\ pc = "fill"
    /\ Len(components) >= 1
    /\ comp_queue # << >>
    /\ \E c \in Grid : visited[c] = 1

NoDuplicates(s) == \A j \in 1 .. Len(s) : \A k \in 1 .. Len(s) : s[j] = s[k] => j = k

\* the cells a step appends to a deque, given what the step leaves of its old content
Appended(kept, new) == SubSeq(new, Len(kept) + 1, Len(new))

KeptOfQueue == IF pc = "expand" /\ queue # << >> THEN Tail(queue) ELSE queue

KeptOfCompQueue == IF pc = "fill" /\ comp_queue # << >> THEN Tail(comp_queue) ELSE comp_queue

\* C18: in the border pass a step appends to the queue exactly the cells whose
\* visited entry it sets, each once, and a set entry stays set, so no cell is
\* appended twice (also when w = 1 or h = 1); likewise for the component
\* queues and the labels; no queue holds more than w * h cells; in a fully
\* transparent image every cell has been appended by the end of the border pass.
C18_EnqueuedAtMostOnce ==
    /\ [][BorderPass =>
            /\ Len(queue') >= Len(KeptOfQueue)
            /\ SubSeq(queue', 1, Len(KeptOfQueue)) = KeptOfQueue
            /\ NoDuplicates(Appended(KeptOfQueue, queue'))
            /\ RangeOf(Appended(KeptOfQueue, queue')) =
                  { c \in Grid : visited[c] = 0 /\ visited'[c] = 1 }
            /\ \A c \in Grid : visited[c] = 1 => visited'[c] = 1]_vars
    /\ [][LabelPass =>
            /\ Len(comp_queue') >= Len(KeptOfCompQueue)
            /\ SubSeq(comp_queue', 1, Len(KeptOfCompQueue)) = KeptOfCompQueue
            /\ NoDuplicates(Appended(KeptOfCompQueue, comp_queue'))
            /\ RangeOf(Appended(KeptOfCompQueue, comp_queue')) =
                  { c \in Grid : labeled[c] = 0 /\ labeled'[c] # 0 }
            /\ \A c \in Grid : labeled[c] # 0 => labeled'[c] = labeled[c]]_vars
    /\ [][(~BorderPass /\ pc # "load") => (queue' = queue)]_vars
    /\ [][~LabelPass => (comp_queue' = comp_queue)]_vars
    /\ [](/\ NoDuplicates(queue) /\ Len(queue) <= w * h
          /\ NoDuplicates(comp_queue) /\ Len(comp_queue) <= w * h)
    /\ []((FloodFillFinished /\ TransparentCells = Grid) =>
             \A c \in Grid : visited[c] = 1)

\* a fully transparent image one pixel high, all of its cells queued
C18_Witness ==
    /\ pc = "expand"
    /\ h = 1
    /\ w >= 2
    /\ TransparentCells = Grid
    /\ Len(queue) = w

\* C19: holes are sealed.  After the analysis every 4-neighbour inside the grid
\* of a cell with label k is either non-transparent or carries label k too, so
\* no labelled cell touches a cell the border flood-fill visited.
C19_HolesSealed ==
    LabelingFinished =>
        \A c \in Grid :
            labeled[c] # 0 =>
                /\ visited[c] = 0
                /\ \A d \in Grid :
                       Adjacent4(c, d) =>
                           /\ ~transparent[d] \/ labeled[d] = labeled[c]
                           /\ visited[d] = 0

\* a finished run with an exterior pocket behind a gap of the frame, and a hole
\* of two cells one of which has a non-transparent neighbour
C19_Witness ==
    /\ pc = "done"
    /\ \E e \in Grid \ BorderCells : visited[e] = 1
    /\ \E c \in Grid : \E d \in Grid : \E o \in Grid :
          /\ labeled[c] # 0
          /\ Adjacent4(c, d) /\ labeled[d] = labeled[c]
          /\ Adjacent4(c, o) /\ ~transparent[o]

\* C20: every hole lies strictly inside the border ring.  Every Component
\* (area, x, y, cw, ch) of a w x h grid has x >= 1, y >= 1, x + cw <= w - 1 and
\* y + ch <= h - 1, and so does every printed Hole line; a grid with w <= 2 or
\* h <= 2 therefore yields no Component at all.
C20_HolesInsideRing ==
    /\ \A k \in 1 .. Len(components) :
          /\ components[k][2] >= 1
          /\ components[k][3] >= 1
          /\ components[k][2] + components[k][4] <= w - 1
          /\ components[k][3] + components[k][5] <= h - 1
    /\ \A k \in 1 .. Len(output) :
          output[k][1] = "Hole" =>
              /\ output[k][4] >= 1
              /\ output[k][5] >= 1
              /\ output[k][4] + output[k][6] <= w - 1
              /\ output[k][5] + output[k][7] <= h - 1
    /\ (Labeling /\ (w <= 2 \/ h <= 2)) => (components = << >> /\ label = 0)
    /\ (pc = "done" /\ (w <= 2 \/ h <= 2)) => output[Len(output)] = <<"Found", 0>>

\* a printed hole whose box touches the border ring on all four sides
C20_Witness ==
    /\ pc = "done"
    /\ \E k \in 1 .. Len(output) :
          /\ output[k][1] = "Hole"
          /\ output[k][4] = 1
          /\ output[k][5] = 1
          /\ output[k][4] + output[k][6] = w - 1
          /\ output[k][5] + output[k][7] = h - 1
          /\ output[k][3] >= 2

(***************************************************************************)
(* Lines 19-40 run in one order (rows left to right, then the side columns *)
(* top to bottom, then the queue first in, first out).  The operators      *)
(* below replay that order as a function of the mask; AnyOrderSpec runs    *)
(* the same per-cell steps (SeedCell, ExpandNbrs) in every order: any      *)
(* border cell may be seeded next and any queued cell expanded next.       *)
(***************************************************************************)
\* lines 19-25 from column xx on
RECURSIVE RunSeedRows(_, _)
RunSeedRows(xx, s) ==
    IF xx >= w THEN s
    ELSE LET s1 == SeedCell(s.visited, s.queue, xx, SeedRows[1])
             s2 == SeedCell(s1.visited, s1.queue, xx, SeedRows[2])
         IN RunSeedRows(xx + 1, s2)

\* lines 26-32 from row yy on
RECURSIVE RunSeedCols(_, _)
RunSeedCols(yy, s) ==
    IF yy >= h - 1 THEN s
    ELSE LET s1 == SeedCell(s.visited, s.queue, SeedCols[1], yy)
             s2 == SeedCell(s1.visited, s1.queue, SeedCols[2], yy)
         IN RunSeedCols(yy + 1, s2)

\* lines 34-40 until the queue is empty
RECURSIVE RunExpand(_)
RunExpand(s) ==
    IF s.queue = << >> THEN s
    ELSE LET c == Head(s.queue)
         IN RunExpand(ExpandNbrs(c[1], c[2], 1, s.visited, QueueRest(s.queue)))

\* the visited mask lines 16-40 compute for the current transparency mask
CodeVisited ==
    RunExpand(RunSeedCols(SeedColFirst,
        RunSeedRows(0, [visited |-> [c \in Cells(w, h) |-> 0], queue |-> << >>]))).visited

\* the cells the two seeding loops examine
SeedCells ==
    { <<xx, SeedRows[j]>> : xx \in 0 .. w - 1, j \in 1 .. 2 }
        \cup { <<SeedCols[j], yy>> : yy \in SeedColFirst .. h - 2, j \in 1 .. 2 }

\* the cells of S listed in row-major order
RECURSIVE InOrder(_)
InOrder(S) ==
    IF S = {} THEN << >>
    ELSE LET c == CHOOSE a \in S : \A b \in S : a[2] * w + a[1] <= b[2] * w + b[1]
         IN <<c>> \o InOrder(S \ {c})

\* the pending cells of a queue any element of which may be taken next: their
\* order carries no information, so they are kept in row-major order
Pending(q) == InOrder({ q[j] : j \in 1 .. Len(q) })

\* q without its j-th element
Without(q, j) == SubSeq(q, 1, j - 1) \o SubSeq(q, j + 1, Len(q))

\* one seeding step in any order: some border cell that lines 21 or 24 (28 or
\* 31) would seed is seeded now
AnySeed ==
    /\ pc = "seed_rows"
    /\ \E c \in SeedCells :
          /\ transparent[c] /\ visited[c] = 0
          /\ LET s == SeedCell(visited, queue, c[1], c[2])
             IN /\ visited' = s.visited
                /\ queue' = Pending(s.queue)
    /\ UNCHANGED <<pc, file, w, h, alpha, transparent, x, y, interior, labeled,
                   label, components, comp_queue, min_x, min_y, max_x, max_y,
                   area, i, output>>

\* every border cell has been examined: the seeding loops are over
AnySeedDone ==
    /\ pc = "seed_rows"
    /\ \A c \in SeedCells : ~(transparent[c] /\ visited[c] = 0)
    /\ pc' = "expand"
    /\ UNCHANGED <<file, w, h, alpha, transparent, visited, queue, x, y, interior,
                   labeled, label, components, comp_queue, min_x, min_y, max_x,
                   max_y, area, i, output>>

\* one iteration of lines 34-40 on any queued cell instead of the oldest
AnyExpand ==
    /\ pc = "expand"
    /\ \E j \in 1 .. Len(queue) :
          LET c == queue[j]
              s == ExpandNbrs(c[1], c[2], 1, visited, Without(queue, j))
          IN /\ visited' = s.visited
             /\ queue' = Pending(s.queue)
    /\ UNCHANGED <<pc, file, w, h, alpha, transparent, x, y, interior, labeled,
                   label, components, comp_queue, min_x, min_y, max_x, max_y,
                   area, i, output>>

\* the decoded images with at least one pixel (the others never reach line 34)
\* whose border ring is not opaque by construction (the others seed nothing)
AnyOrderInit ==
    /\ Init
    /\ file \in GeneralImages \cup FramedImages
    /\ file.w >= 1 /\ file.h >= 1

AnyOrderNext ==
    \/ Load
    \/ AnySeed
    \/ AnySeedDone
    \/ AnyExpand
    \/ ExpandDone
    \/ ScanCell
    \/ FillPop
    \/ FillDone
    \/ ScanDone
    \/ Sort
    \/ PrintFound
    \/ PrintHole
    \/ ReportDone

AnyOrderSpec == AnyOrderInit /\ [][AnyOrderNext]_vars

\* the record (area, x, y, width, height) of a set of cells
BoxOf(R) ==
    <<Cardinality(R),
      MinOf({ c[1] : c \in R }),
      MinOf({ c[2] : c \in R }),
      MaxOf({ c[1] : c \in R }) - MinOf({ c[1] : c \in R }) + 1,
      MaxOf({ c[2] : c \in R }) - MinOf({ c[2] : c \in R }) + 1>>

\* the maximal 4-connected sets of transparent cells the code's own order leaves
\* unvisited
CodeHoles ==
    LET I == { c \in Grid : transparent[c] /\ CodeVisited[c] = 0 }
    IN { Region({c}, I) : c \in I }

\* C11: the border flood-fill is order independent.  Whatever the order in
\* which border cells are seeded and queued cells are taken, the final visited
\* mask is the one the code's own order computes, and so the Component records
\* are those of the holes that order leaves.
C11_OrderIndependent ==
    /\ FloodFillFinished => visited = CodeVisited
    /\ LabelingFinished =>
          /\ Len(components) = Cardinality(CodeHoles)
          /\ RangeOf(components) = { BoxOf(R) : R \in CodeHoles }

\* an order the code never takes: a cell off the border is already visited
\* while the corner (0, 0), which the code seeds and expands first, still waits
C11_Witness ==
    /\ pc = "expand"
    /\ Len(queue) >= 2
    /\ <<0, 0>> \in RangeOf(queue)
    /\ \E e \in Grid \ BorderCells : visited[e] = 1

====
